---- MODULE Spec2Model ----
(***************************************************************************)
(* Model of the match discovery / match action core of the dating backend. *)
(*                                                                         *)
(*   resources/match.py   DiscoverMatchesResource.get, MatchActionResource *)
(*   utils/matching.py    get_potential_matches, calculate_cosine_similarity, *)
(*                        generate_match_explanation,                      *)
(*                        calculate_compatibility_score                    *)
(*   utils/cache.py       CacheManager, build_discover_cache_key           *)
(*   middleware/premium.py premium_required                                *)
(*   models/matches.py    Match (uq_match_pair, check_user_order)          *)
(*   resources/users.py   CurrentUserResource.put                          *)
(*   resources/messages.py MessageResource.post                            *)
(*   resources/payments.py VerifyPaymentResource, PaystackWebhookResource, *)
(*                        SubscriptionStatusResource                       *)
(*                                                                         *)
(* User ids are strings ordered by sorted(); they are modelled by the      *)
(* integers 1..NumUsers with the same total order.  Requests are served    *)
(* concurrently and their steps interleave: a like/pass is cut into its    *)
(* lookup, its commit, and its cache invalidation with the response; a     *)
(* discovery into its reads (gate, cache lookup, profiles, interactions)   *)
(* and its cache write with the response.  That is Spec.                   *)
(*                                                                         *)
(* Discovery follows one discovery request at a time through every call    *)
(* it makes: each data-layer call may raise, and each call to the          *)
(* explanation service is answered by a text, by an exception, or not at   *)
(* all (FairDiscovery adds weak fairness of the handler's own steps).      *)
(* Scoring applies calculate_compatibility_score to a grid of inputs.      *)
(* Ranking runs discovery over a larger population and any integer limit,  *)
(* Cosine applies calculate_cosine_similarity to small integer vectors,    *)
(* Messaging interleaves message sends with like/pass, and Billing puts     *)
(* payments and the passing of time next to the premium gate.              *)
(***************************************************************************)
EXTENDS Integers, Sequences, FiniteSets, TLC

\* ------------------------------------------------------------------ bounds
NumUsers == 3
NumSlots == 2
MaxOps == 3
MaxLimit == 2

Users == 1..NumUsers
Slots == 1..NumSlots

\* ------------------------------------------------------------- vocabulary
MatchStatus == {"pending", "matched", "declined", "blocked"}
ValidActions == {"like", "pass", "declined"}
ActionInputs == {"like", "pass"}
LimitInputs == 1..MaxLimit

\* Optional[...] query parameters: <<>> is None, <<v>> is the value v.
None == <<>>
Some(v) == <<v>>
FilterInputs ==
    { [min_age |-> None, max_age |-> None, gender |-> None],
      [min_age |-> Some(30), max_age |-> None, gender |-> Some("F")] }

VARIABLES
    matches,      \* the matches table: set of rows
    premium,      \* Profile.premium per user
    embedding,    \* Profile.embedding per user: None or Some(vector)
    redis_ok,     \* redis_client is not None
    cache,        \* redis keyspace for discover keys: set of [key, value]
    req,          \* per request slot: the handler's locals and position
    ops,          \* number of requests started so far
    liked,        \* history: <<u, t>> for every like action u issued on t
    initiated,    \* history: <<u, t>> when u's like created the pending row
    decided,      \* history: <<u, t>> when u's like/pass on t has returned 200
    gemini_key,   \* GEMINI_API_KEY is set
    disc,         \* one discovery request followed call by call: its locals
    similarity,   \* argument of calculate_compatibility_score
    score,        \* its return value: None before the call
    messages,     \* the messages table: set of rows
    send,         \* per request slot: the locals of MessageResource.post
    premium_expires_at,  \* Profile.premium_expires_at per user: None or Some(day)
    subscription, \* the subscriptions table, per user: None or Some(row)
    utcnow        \* datetime.utcnow(), in days

\* The state of the call-by-call view of discovery, and of the score function.
pipeline == <<gemini_key, disc>>
scoring == <<similarity, score>>
\* The state of the message routes, and of payments and subscriptions.
messaging == <<messages, send>>
billing == <<premium_expires_at, subscription, utcnow>>

vars == <<matches, premium, embedding, redis_ok, cache, req, ops, liked, initiated,
          decided, pipeline, scoring, messaging, billing>>

\* ---------------------------------------------------------------- profiles
\* Static profile attributes of the user population.
AgeOf(u) == 20 + 7 * u
GenderOf(u) == IF u % 2 = 0 THEN "F" ELSE "M"
VectorOf(u) == <<u, ((u * u) % 5) - 2>>


\* -------------------------------------------------------------- similarity
\* np.dot of two 1-d arrays: the sum of the products, and a ValueError when
\* the lengths differ (shapes not aligned).
RECURSIVE DotUpTo(_, _, _)
DotUpTo(a, b, n) == IF n = 0 THEN 0 ELSE a[n] * b[n] + DotUpTo(a, b, n - 1)
Dot(a, b) == DotUpTo(a, b, Len(a))
DotRaises(a, b) == Len(a) # Len(b)
NormSq(a) == Dot(a, a)
SignSq(x) == IF x < 0 THEN 0 - x * x ELSE x * x

\* calculate_cosine_similarity(a, b) = dot / (norm1 * norm2), and 0.0 when a
\* norm is zero.  The quotient is kept exact as the pair <<n, d>> standing for
\* sign(n) * sqrt(|n| / d): n = sign(dot) * dot^2, d = |a|^2 * |b|^2.
calculate_cosine_similarity_unguarded(a, b) ==
    <<SignSq(Dot(a, b)), NormSq(a) * NormSq(b)>>
calculate_cosine_similarity(a, b) ==
    IF NormSq(a) = 0 \/ NormSq(b) = 0
    THEN <<0, 1>>
    ELSE <<SignSq(Dot(a, b)), NormSq(a) * NormSq(b)>>

\* s1 < s2 on the exact representation (x -> sign(x) * x^2 is increasing).
SimLess(s1, s2) == s1[1] * s2[2] < s2[1] * s1[2]

\* --------------------------------------------------------------- sequences
\* Python's s[:n]: the first n elements, and for negative n all but the last
\* -n elements.
Take(s, n) ==
    LET k == IF n >= 0 THEN n ELSE Len(s) + n
        m == IF k < 0 THEN 0 ELSE IF k > Len(s) THEN Len(s) ELSE k
    IN  SubSeq(s, 1, m)

SeqToSet(s) == { s[i] : i \in 1..Len(s) }

\* [x for x in s if keep(x)]
RECURSIVE SelectIds(_, _)
SelectIds(s, keepSet) ==
    IF s = <<>> THEN <<>>
    ELSE IF Head(s) \in keepSet
         THEN <<Head(s)>> \o SelectIds(Tail(s), keepSet)
         ELSE SelectIds(Tail(s), keepSet)

\* ------------------------------------------------------ candidate ranking
\* The filtered scan of get_potential_matches: every profile other than the
\* requester's that has an embedding and passes the age / gender filters.
Candidates(user_id, emb, f) ==
    { c \in DOMAIN emb :
        /\ c # user_id
        /\ emb[c] # None
        /\ (f.min_age # None => AgeOf(c) >= f.min_age[1])
        /\ (f.max_age # None => AgeOf(c) <= f.max_age[1])
        /\ (f.gender # None => GenderOf(c) = f.gender[1]) }

\* list.sort(key=score, reverse=True) is stable: equal scores keep the scan
\* order, which is taken to be ascending user id.
Before_scan_order(q, emb, c1, c2) == c1 < c2
Before(q, emb, c1, c2) ==
    LET s1 == calculate_cosine_similarity(q, emb[c1][1])
        s2 == calculate_cosine_similarity(q, emb[c2][1])
    IN  SimLess(s2, s1) \/ (~SimLess(s1, s2) /\ c1 < c2)

RECURSIVE SortBySimilarity(_, _, _)
SortBySimilarity(q, emb, cs) ==
    IF cs = {} THEN <<>>
    ELSE LET best == CHOOSE c \in cs : \A d \in cs \ {c} : Before(q, emb, c, d)
         IN  <<best>> \o SortBySimilarity(q, emb, cs \ {best})

\* matches_with_scores: the candidates whose similarity was computed.  The
\* loop's try / except logs a candidate whose calculate_cosine_similarity
\* raises and goes on with the next one.
Scored(q, emb, cs) == { c \in cs : ~DotRaises(q, emb[c][1]) }

\* get_potential_matches(user_id, limit, min_age, max_age, preferred_gender):
\* the ranked candidate ids, best first, cut to `limit`.
get_potential_matches_uncut(user_id, limit, emb, f) ==
    IF emb[user_id] = None THEN <<>>
    ELSE LET cs == Candidates(user_id, emb, f)
         IN  IF cs = {} THEN <<>>
             ELSE SortBySimilarity(emb[user_id][1], emb, Scored(emb[user_id][1], emb, cs))
get_potential_matches(user_id, limit, emb, f) ==
    IF emb[user_id] = None THEN <<>>
    ELSE LET cs == Candidates(user_id, emb, f)
         IN  IF cs = {} THEN <<>>
             ELSE Take(SortBySimilarity(emb[user_id][1], emb,
                                        Scored(emb[user_id][1], emb, cs)), limit)

\* ------------------------------------------------------------ interactions
\* existing_match_ids of DiscoverMatchesResource.get: both positions of every
\* row that has the requester in either position, minus the requester.
ExistingMatchIds_first_position_only(rows, user_id) ==
    { m.user_id_2 : m \in { x \in rows : x.user_id_1 = user_id } }
ExistingMatchIds(rows, user_id) ==
    ( { m.user_id_1 : m \in { x \in rows : x.user_id_1 = user_id \/ x.user_id_2 = user_id } }
      \cup
      { m.user_id_2 : m \in { x \in rows : x.user_id_1 = user_id \/ x.user_id_2 = user_id } } )
    \ {user_id}

\* filtered_matches: potential matches without the existing ids, cut to limit.
FilteredMatches(potential, existing_ids, limit) ==
    Take(SelectIds(potential, SeqToSet(potential) \ existing_ids), limit)


\* ------------------------------------------------------------------ scores
\* int(x * 100) for a similarity x in the exact representation: the integer
\* part, truncated toward zero.  Magnitudes above 101 are reported as 101;
\* the clamp that follows maps them to 100 all the same.
IntOfTimes100(s) ==
    LET a == IF s[1] < 0 THEN 0 - s[1] ELSE s[1]
        k == CHOOSE j \in 0..101 :
                /\ j * j * s[2] <= 10000 * a
                /\ (j = 101 \/ (j + 1) * (j + 1) * s[2] > 10000 * a)
    IN  IF s[1] < 0 THEN 0 - k ELSE k

Min(a, b) == IF a < b THEN a ELSE b
Max(a, b) == IF a > b THEN a ELSE b

\* calculate_compatibility_score: max(0, min(100, int(similarity * 100)))
calculate_compatibility_score(s) == Max(0, Min(100, IntOfTimes100(s)))

\* ------------------------------------------------------------ explanations
ExplanationLimit == 200
ExplanationCut == 197
UnavailableLen == 37
FallbackLen == 80

\* What model.generate_content(prompt) / response.text can produce: a text
\* (given by its length after strip(), possibly 0), or an exception - the
\* service failing, or response.text raising on a reply without a valid part.
GeminiReplies ==
    { [kind |-> "text", len |-> 120], [kind |-> "text", len |-> 250],
      [kind |-> "text", len |-> 0],
      [kind |-> "raise", len |-> 0] }

\* generate_match_explanation: the returned string, given by which text it
\* is and its length.
generate_match_explanation_untruncated(key_set, reply) ==
    IF ~key_set
    THEN [text |-> "AI matching is currently unavailable.", len |-> UnavailableLen]
    ELSE IF reply.kind = "raise"
    THEN [text |-> "You both share similar interests and values, ...",
          len |-> FallbackLen]
    ELSE [text |-> "generated", len |-> reply.len]
generate_match_explanation(key_set, reply) ==
    IF ~key_set
    THEN [text |-> "AI matching is currently unavailable.", len |-> UnavailableLen]
    ELSE IF reply.kind = "raise"
    THEN [text |-> "You both share similar interests and values, ...",
          len |-> FallbackLen]
    ELSE [text |-> "generated",
          len |-> IF reply.len > ExplanationLimit
                  THEN ExplanationCut + 3
                  ELSE reply.len]

\* ------------------------------------------------------------------- cache
\* f"matches:discover:{user_id}:{limit}:{min_age}:{max_age}:{gender}"
\* The colon-separated fields are kept apart; an f-string renders a missing
\* parameter as the text "None", an int by its digits and a str as itself.
FormatOptionalInt(x) == IF x = None THEN "None" ELSE ToString(x[1])
FormatOptionalStr(x) == IF x = None THEN "None" ELSE x[1]

build_discover_cache_key(user_id, limit, f) ==
    [user_id |-> user_id, limit |-> limit,
     min_age |-> FormatOptionalInt(f.min_age),
     max_age |-> FormatOptionalInt(f.max_age),
     gender |-> FormatOptionalStr(f.gender)]

\* CacheManager.get: None when redis is unavailable or the key is absent.
CacheGet_empty_when_down(c, ok, key) ==
    IF ~ok THEN Some(<<>>)
    ELSE IF \E e \in c : e.key = key
         THEN Some((CHOOSE e \in c : e.key = key).value)
         ELSE None
CacheGet(c, ok, key) ==
    IF ~ok THEN None
    ELSE IF \E e \in c : e.key = key
         THEN Some((CHOOSE e \in c : e.key = key).value)
         ELSE None

\* CacheManager.set: setex overwrites the key; a no-op without redis.
CacheSet(c, ok, key, value) ==
    IF ~ok THEN c
    ELSE { e \in c : e.key # key } \cup { [key |-> key, value |-> value] }

\* CacheManager.invalidate_user_cache: delete_pattern on
\* "matches:discover:{user_id}:*" removes every discover key of the user.
invalidate_user_cache(c, ok, user_id) ==
    IF ~ok THEN c
    ELSE { e \in c : e.key.user_id # user_id }

\* ---------------------------------------------------------------- requests
NoResp == [code |-> 0, status |-> "", is_match |-> FALSE, matches |-> <<>>, cached |-> FALSE]
success_response(status, is_match, ms, cached) ==
    [code |-> 200, status |-> status, is_match |-> is_match, matches |-> ms, cached |-> cached]
error_response(code) ==
    [code |-> code, status |-> "", is_match |-> FALSE, matches |-> <<>>, cached |-> FALSE]

NoFilter == [min_age |-> None, max_age |-> None, gender |-> None]
IdleReq ==
    [pc |-> "idle", kind |-> "none", user_id |-> 0, target_user_id |-> 0,
     action |-> "", limit |-> 0, filter |-> NoFilter,
     existing |-> None, branch |-> "", result |-> <<>>, decided |-> {},
     resp |-> NoResp]

\* The locals of the discovery request that is followed call by call.
\* db_failed and asked are history: whether a data-layer call of the request
\* has raised, and the candidate the pending explanation call was made for;
\* hit is the request that stored the cache entry this request was served.
IdleDisc ==
    [pc |-> "idle", user_id |-> 0, limit |-> 0, filter |-> NoFilter,
     potential |-> <<>>, filtered |-> <<>>, matches_data |-> <<>>,
     db_failed |-> FALSE, asked |-> 0, hit |-> None, resp |-> NoResp]

\* A new request is taken by the first worker that is not serving one.
Busy(r) == req[r].pc \notin {"idle", "done"}
\* A response stays in its slot until the next step of any handler.
Delivered == [s \in Slots |-> IF req[s].pc = "done" THEN IdleReq ELSE req[s]]
Free(r) == ~Busy(r) /\ (\A s \in 1..(r - 1) : Busy(s)) /\ ops < MaxOps

\* user_id_1, user_id_2 = sorted([user_id, target_user_id])
UserId1(user_id, target_user_id) ==
    IF user_id < target_user_id THEN user_id ELSE target_user_id
UserId2(user_id, target_user_id) ==
    IF user_id < target_user_id THEN target_user_id ELSE user_id

\* Match.query.filter_by(user_id_1=..., user_id_2=...).first()
FindMatch(rows, u1, u2) ==
    IF \E m \in rows : m.user_id_1 = u1 /\ m.user_id_2 = u2
    THEN Some(CHOOSE m \in rows : m.user_id_1 = u1 /\ m.user_id_2 = u2)
    ELSE None

\* uq_match_pair: UniqueConstraint('user_id_1', 'user_id_2')
uq_match_pair_dropped(rows, row) == TRUE
uq_match_pair(rows, row) ==
    ~\E m \in rows : m.user_id_1 = row.user_id_1 /\ m.user_id_2 = row.user_id_2

\* check_user_order: CheckConstraint('user_id_1 < user_id_2')
check_user_order(row) == row.user_id_1 < row.user_id_2

NewMatch(rows, u1, u2, status) ==
    [id |-> Cardinality(rows) + 1, user_id_1 |-> u1, user_id_2 |-> u2,
     match_status |-> status]

\* The status the existing-record branch assigns to the loaded row.
UpdatedStatus(action, user_id, u1, u2, row) ==
    IF action = "like"
    THEN IF row.match_status = "pending" /\ user_id = u2 /\ row.user_id_1 = u1
         THEN "matched"
         ELSE row.match_status
    ELSE "declined"


\* ------------------------------------------------------------- idle parts
\* The locals of a message send; checked is the match row the checks read.
IdleSend ==
    [pc |-> "idle", user_id |-> 0, match_id |-> 0, receiver_id |-> 0,
     checked |-> None, code |-> 0]

\* No message has been sent and no send is being served.
MessagingIdle ==
    /\ messages = {}
    /\ send = [r \in Slots |-> IdleSend]

\* No payment has been made: no expiry, no subscription, day 0.
BillingIdle ==
    /\ premium_expires_at = [u \in Users |-> None]
    /\ subscription = [u \in Users |-> None]
    /\ utcnow = 0

\* No discovery request is followed call by call, no score is computed.
PipelineIdle ==
    /\ gemini_key = FALSE
    /\ disc = IdleDisc
ScoringIdle ==
    /\ similarity = <<0, 1>>
    /\ score = None

\* No like/pass or discovery request has been served.
ServingIdle ==
    /\ req = [r \in Slots |-> IdleReq]
    /\ ops = 0
    /\ liked = {}
    /\ initiated = {}
    /\ decided = {}

\* -------------------------------------------------------------------- Init
\* Every user has a profile (the user.created webhook creates both).  The
\* last user may be a newcomer: no embedding yet, premium or not.  The table
\* holds one row that an operator has blocked.
Init ==
    /\ \E newcomer \in {<<TRUE, TRUE>>, <<TRUE, FALSE>>, <<FALSE, FALSE>>} :
          /\ premium = [u \in Users |-> u # NumUsers \/ newcomer[1]]
          /\ embedding = [u \in Users |-> IF u # NumUsers \/ newcomer[2]
                                          THEN Some(VectorOf(u)) ELSE None]
    /\ matches = { [id |-> 1, user_id_1 |-> 1, user_id_2 |-> 3,
                    match_status |-> "blocked"] }
    /\ redis_ok \in BOOLEAN
    /\ cache = {}
    /\ req = [r \in Slots |-> IdleReq]
    /\ ops = 0
    /\ liked = {}
    /\ initiated = {}
    /\ decided = {}
    /\ gemini_key = FALSE
    /\ disc = IdleDisc
    /\ similarity = <<0, 1>>
    /\ score = None
    /\ MessagingIdle
    /\ BillingIdle

\* ------------------------------------------------- MatchActionResource.post
\* Validation and the lookup of the existing row (one SELECT).
ActionRequest(r, user_id, target_user_id, action) ==
    /\ Free(r)
    /\ ops' = ops + 1
    /\ LET q == [IdleReq EXCEPT !.kind = "action", !.user_id = user_id,
                                !.target_user_id = target_user_id,
                                !.action = action]
           u1 == UserId1(user_id, target_user_id)
           u2 == UserId2(user_id, target_user_id)
       IN  IF action \notin ValidActions \/ target_user_id = user_id
           THEN /\ req' = [Delivered EXCEPT ![r] = [q EXCEPT !.pc = "done",
                                                       !.resp = error_response(400)]]
                /\ UNCHANGED liked
           ELSE /\ req' = [Delivered EXCEPT ![r] =
                            [q EXCEPT !.pc = "a_commit",
                                      !.existing = FindMatch(matches, u1, u2)]]
                /\ liked' = IF action = "like"
                            THEN liked \cup {<<user_id, target_user_id>>}
                            ELSE liked
    /\ UNCHANGED <<matches, premium, embedding, redis_ok, cache, initiated, decided,
                 pipeline, scoring, messaging, billing>>

\* The status assignment / the insert, and db.session.commit().  An insert
\* that violates a table constraint raises: rollback and the generic 500.
ActionCommit(r) ==
    /\ req[r].pc = "a_commit"
    /\ LET q == req[r]
           u1 == UserId1(q.user_id, q.target_user_id)
           u2 == UserId2(q.user_id, q.target_user_id)
       IN  IF q.existing # None
           THEN LET row == q.existing[1]
                    new == UpdatedStatus(q.action, q.user_id, u1, u2, row)
                IN  /\ matches' =
                          IF new # row.match_status
                          THEN { IF m.id = row.id
                                 THEN [m EXCEPT !.match_status = new]
                                 ELSE m : m \in matches }
                          ELSE matches
                    /\ req' = [Delivered EXCEPT ![r] = [q EXCEPT !.pc = "a_respond",
                                                           !.branch = "update"]]
                    /\ UNCHANGED initiated
           ELSE LET row == NewMatch(matches, u1, u2,
                                    IF q.action = "like" THEN "pending" ELSE "declined")
                IN  IF uq_match_pair(matches, row) /\ check_user_order(row)
                    THEN /\ matches' = matches \cup {row}
                         /\ req' = [Delivered EXCEPT ![r] =
                                      [q EXCEPT !.pc = "a_respond",
                                                !.existing = Some(row),
                                                !.branch = IF q.action = "like"
                                                           THEN "new_like"
                                                           ELSE "new_pass"]]
                         /\ initiated' = IF q.action = "like"
                                         THEN initiated \cup {<<q.user_id, q.target_user_id>>}
                                         ELSE initiated
                    ELSE /\ req' = [Delivered EXCEPT ![r] =
                                      [q EXCEPT !.pc = "done",
                                                !.resp = error_response(500)]]
                         /\ UNCHANGED <<matches, initiated>>
    /\ UNCHANGED <<premium, embedding, redis_ok, cache, ops, liked, decided,
                 pipeline, scoring, messaging, billing>>

\* The cache invalidation of the branch and the response.  commit() expires
\* the loaded row, so the update branch reports the status the row has now.
InvalidatedByAction(c, ok, branch, user_id, target_user_id) ==
    IF branch = "new_pass"
    THEN invalidate_user_cache(c, ok, user_id)
    ELSE invalidate_user_cache(invalidate_user_cache(c, ok, user_id), ok, target_user_id)

ActionRespond(r) ==
    /\ req[r].pc = "a_respond"
    /\ LET q == req[r]
           now == (CHOOSE m \in matches : m.id = q.existing[1].id).match_status
       IN  /\ cache' = InvalidatedByAction(cache, redis_ok, q.branch,
                                           q.user_id, q.target_user_id)
           /\ req' = [Delivered EXCEPT ![r] =
                  [q EXCEPT !.pc = "done",
                            !.resp = IF q.branch = "update"
                                     THEN success_response(now, now = "matched", <<>>, FALSE)
                                     ELSE IF q.branch = "new_like"
                                     THEN success_response("pending", FALSE, <<>>, FALSE)
                                     ELSE success_response("declined", FALSE, <<>>, FALSE)]]
           /\ decided' = decided \cup {<<q.user_id, q.target_user_id>>}
    /\ UNCHANGED <<matches, premium, embedding, redis_ok, ops, liked, initiated,
                 pipeline, scoring, messaging, billing>>


\* ---------------------------------------------- DiscoverMatchesResource.get
\* premium_required, the cache lookup under the request's key and, on a miss,
\* the reads of the request: profile check, ranking of 2 * limit candidates,
\* existing-interaction filter, truncation to limit.
DiscoverResult(user_id, limit, f, emb, rows) ==
    FilteredMatches(get_potential_matches(user_id, limit * 2, emb, f),
                    ExistingMatchIds(rows, user_id), limit)

\* "Please complete your profile to get matches", 400
incomplete_profile_response_500 == error_response(500)
incomplete_profile_response == error_response(400)

\* {'matches': []} with a success status, for an empty scan and for an empty
\* filtered list.
no_matches_response_404 == error_response(404)
no_matches_response == success_response("", FALSE, <<>>, FALSE)

DiscoverRequest(r, user_id, limit, f) ==
    /\ Free(r)
    /\ ops' = ops + 1
    /\ LET q == [IdleReq EXCEPT !.kind = "discover", !.user_id = user_id,
                                !.limit = limit, !.filter = f,
                                !.decided = { d[2] : d \in { x \in decided : x[1] = user_id } }]
           cached_result == CacheGet(cache, redis_ok,
                                     build_discover_cache_key(user_id, limit, f))
           potential_matches ==
               get_potential_matches(user_id, limit * 2, embedding, f)
           filtered_matches == DiscoverResult(user_id, limit, f, embedding, matches)
       IN  req' = [Delivered EXCEPT ![r] =
              IF ~premium[user_id]
              THEN [q EXCEPT !.pc = "done", !.resp = error_response(403)]
              ELSE IF cached_result # None
              THEN [q EXCEPT !.pc = "done",
                             !.resp = success_response("", FALSE, cached_result[1], TRUE)]
              ELSE IF embedding[user_id] = None
              THEN [q EXCEPT !.pc = "done", !.resp = incomplete_profile_response]
              ELSE IF potential_matches = <<>>
              THEN [q EXCEPT !.pc = "done", !.resp = no_matches_response]
              ELSE IF filtered_matches = <<>>
              THEN [q EXCEPT !.pc = "done", !.resp = no_matches_response]
              ELSE [q EXCEPT !.pc = "d_store", !.result = filtered_matches]]
    /\ UNCHANGED <<matches, premium, embedding, redis_ok, cache, liked, initiated, decided,
                 pipeline, scoring, messaging, billing>>

\* CacheManager.set(cache_key, result_data) and the success response.
DiscoverStore(r) ==
    /\ req[r].pc = "d_store"
    /\ LET q == req[r]
       IN  /\ cache' = CacheSet(cache, redis_ok,
                                build_discover_cache_key(q.user_id, q.limit, q.filter),
                                q.result)
           /\ req' = [Delivered EXCEPT ![r] =
                  [q EXCEPT !.pc = "done",
                            !.resp = success_response("", FALSE, q.result, FALSE)]]
    /\ UNCHANGED <<matches, premium, embedding, redis_ok, ops, liked, initiated, decided,
                 pipeline, scoring, messaging, billing>>

\* ------------------------------------------------- CurrentUserResource.put
\* A profile edit of bio / interests whose embedding generation succeeds
\* stores the embedding and invalidates the user's cache.
UpdateProfile(user_id) ==
    /\ ops < MaxOps
    /\ ops' = ops + 1
    /\ embedding' = [embedding EXCEPT ![user_id] = Some(VectorOf(user_id))]
    /\ cache' = invalidate_user_cache(cache, redis_ok, user_id)
    /\ req' = Delivered
    /\ UNCHANGED <<matches, premium, redis_ok, liked, initiated, decided,
                 pipeline, scoring, messaging, billing>>

\* -------------------------------------------------------------------- Next
Next ==
    \/ \E r \in Slots, u \in Users, t \in Users, a \in ActionInputs :
          ActionRequest(r, u, t, a)
    \/ \E r \in Slots : ActionCommit(r)
    \/ \E r \in Slots : ActionRespond(r)
    \/ \E r \in Slots, u \in Users, l \in LimitInputs, f \in FilterInputs :
          DiscoverRequest(r, u, l, f)
    \/ \E r \in Slots : DiscoverStore(r)
    \/ \E u \in Users : UpdateProfile(u)

Spec == Init /\ [][Next]_vars

\* ============================================ discovery, call by call
\* One discovery request at a time, followed through every call it makes to
\* the data layer and to the explanation service.  A data-layer call either
\* answers (db_ok) or raises.
MaxRuns == 2

DiscoverFilterInputs ==
    FilterInputs \cup { [min_age |-> None, max_age |-> None, gender |-> Some("None")] }

DiscoveryInit ==
    /\ \E newcomer \in BOOLEAN :
          /\ premium = [u \in Users |-> u # NumUsers \/ ~newcomer]
          /\ embedding = [u \in Users |-> IF u # NumUsers \/ ~newcomer
                                          THEN Some(VectorOf(u)) ELSE None]
    /\ matches = { [id |-> 1, user_id_1 |-> 1, user_id_2 |-> 3,
                    match_status |-> "blocked"] }
    /\ redis_ok = TRUE
    /\ cache = {}
    /\ req = [r \in Slots |-> IdleReq]
    /\ ops = 0
    /\ liked = {}
    /\ initiated = {}
    /\ decided = {}
    /\ gemini_key \in BOOLEAN
    /\ disc = IdleDisc
    /\ similarity = <<0, 1>>
    /\ score = None
    /\ MessagingIdle
    /\ BillingIdle

\* The except clause of DiscoverMatchesResource.get (and of the wrapper of
\* premium_required): "Failed to find matches", 500.
Raised(q) == [q EXCEPT !.pc = "done", !.db_failed = TRUE, !.resp = error_response(500)]

\* premium_required (one Profile query), then the lookup of the cache key.
DiscoverBegin(user_id, limit, f, db_ok) ==
    /\ disc.pc \in {"idle", "done"}
    /\ ops < MaxRuns
    /\ ops' = ops + 1
    /\ LET q == [IdleDisc EXCEPT !.user_id = user_id, !.limit = limit, !.filter = f]
           cached_result == CacheGet(cache, redis_ok,
                                     build_discover_cache_key(user_id, limit, f))
       IN  disc' =
              IF ~db_ok THEN Raised(q)
              ELSE IF ~premium[user_id]
              THEN [q EXCEPT !.pc = "done", !.resp = error_response(403)]
              ELSE IF cached_result # None
              THEN [q EXCEPT !.pc = "done",
                             !.hit = Some(cached_result[1].request),
                             !.resp = success_response("", FALSE,
                                                       cached_result[1].matches, TRUE)]
              ELSE [q EXCEPT !.pc = "user"]
    /\ UNCHANGED <<matches, premium, embedding, redis_ok, cache, req, liked, initiated,
                   decided, gemini_key, scoring, messaging, billing>>

\* User.query.get(user_id), the Profile query and the embedding check.
DiscoverLoad(db_ok) ==
    /\ disc.pc = "user"
    /\ disc' = IF ~db_ok THEN Raised(disc)
               ELSE IF embedding[disc.user_id] = None
               THEN [disc EXCEPT !.pc = "done", !.resp = incomplete_profile_response]
               ELSE [disc EXCEPT !.pc = "scan"]
    /\ UNCHANGED <<matches, premium, embedding, redis_ok, cache, req, ops, liked,
                   initiated, decided, gemini_key, scoring, messaging, billing>>

\* get_potential_matches with its own try / except: any exception of its
\* queries is logged and the function returns [].
PotentialMatches(db_ok, user_id, limit, emb, f) ==
    IF db_ok THEN get_potential_matches(user_id, limit, emb, f) ELSE <<>>

DiscoverScan(db_ok) ==
    /\ disc.pc = "scan"
    /\ LET potential_matches ==
               PotentialMatches(db_ok, disc.user_id, disc.limit * 2, embedding,
                                disc.filter)
           q == [disc EXCEPT !.db_failed = ~db_ok, !.potential = potential_matches]
       IN  disc' = IF potential_matches = <<>>
                   THEN [q EXCEPT !.pc = "done", !.resp = no_matches_response]
                   ELSE [q EXCEPT !.pc = "interactions"]
    /\ UNCHANGED <<matches, premium, embedding, redis_ok, cache, req, ops, liked,
                   initiated, decided, gemini_key, scoring, messaging, billing>>

\* The Match query of the requester's rows and the filter to `limit`.
DiscoverInteractions(db_ok) ==
    /\ disc.pc = "interactions"
    /\ LET filtered_matches ==
               FilteredMatches(disc.potential,
                               ExistingMatchIds(matches, disc.user_id), disc.limit)
       IN  disc' = IF ~db_ok THEN Raised(disc)
                   ELSE IF filtered_matches = <<>>
                   THEN [disc EXCEPT !.pc = "done", !.resp = no_matches_response]
                   ELSE [disc EXCEPT !.pc = "candidate", !.filtered = filtered_matches]
    /\ UNCHANGED <<matches, premium, embedding, redis_ok, cache, req, ops, liked,
                   initiated, decided, gemini_key, scoring, messaging, billing>>

\* match_data of one candidate, with the explanation returned for it.
MatchData(user_id, candidate, explanation, asked) ==
    [user_id |-> candidate,
     compatibility_score |->
         calculate_compatibility_score(
             calculate_cosine_similarity(embedding[user_id][1], embedding[candidate][1])),
     ai_explanation |-> explanation,
     explained |-> asked]

\* matches_data.append(match_data) and the loop's advance.
Appended(q, explanation) ==
    LET data == Append(q.matches_data,
                       MatchData(q.user_id, q.filtered[Len(q.matches_data) + 1],
                                 explanation, q.asked))
    IN  [q EXCEPT !.matches_data = data,
                  !.pc = IF Len(data) = Len(q.filtered) THEN "store" ELSE "candidate"]

\* One turn of the loop up to the explanation call: User.query.get of the
\* candidate, then generate_match_explanation, which returns at once without
\* an API key and otherwise calls the service and waits for it.
DiscoverCandidate(db_ok) ==
    /\ disc.pc = "candidate"
    /\ LET q == [disc EXCEPT !.asked = disc.filtered[Len(disc.matches_data) + 1]]
       IN  disc' = IF ~db_ok THEN Raised(disc)
                   ELSE IF ~gemini_key
                   THEN Appended(q, generate_match_explanation(FALSE,
                                        [kind |-> "raise", len |-> 0]))
                   ELSE [q EXCEPT !.pc = "gemini"]
    /\ UNCHANGED <<matches, premium, embedding, redis_ok, cache, req, ops, liked,
                   initiated, decided, gemini_key, scoring, messaging, billing>>

\* The explanation service answers the pending generate_content call.
GeminiAnswers(reply) ==
    /\ disc.pc = "gemini"
    /\ disc' = Appended(disc, generate_match_explanation(gemini_key, reply))
    /\ UNCHANGED <<matches, premium, embedding, redis_ok, cache, req, ops, liked,
                   initiated, decided, gemini_key, scoring, messaging, billing>>

\* CacheManager.set(cache_key, result_data) and the success response.  The
\* stored value carries, as history, the request it was computed for.
DiscoverFinish ==
    /\ disc.pc = "store"
    /\ cache' = CacheSet(cache, redis_ok,
                         build_discover_cache_key(disc.user_id, disc.limit, disc.filter),
                         [matches |-> disc.matches_data,
                          request |-> [user_id |-> disc.user_id, limit |-> disc.limit,
                                       filter |-> disc.filter]])
    /\ disc' = [disc EXCEPT !.pc = "done",
                            !.resp = success_response("", FALSE, disc.matches_data, FALSE)]
    /\ UNCHANGED <<matches, premium, embedding, redis_ok, req, ops, liked, initiated,
                   decided, gemini_key, scoring, messaging, billing>>

DiscoveryNext ==
    \/ \E u \in Users, l \in LimitInputs, f \in DiscoverFilterInputs, db_ok \in BOOLEAN :
          DiscoverBegin(u, l, f, db_ok)
    \/ \E db_ok \in BOOLEAN : DiscoverLoad(db_ok)
    \/ \E db_ok \in BOOLEAN : DiscoverScan(db_ok)
    \/ \E db_ok \in BOOLEAN : DiscoverInteractions(db_ok)
    \/ \E db_ok \in BOOLEAN : DiscoverCandidate(db_ok)
    \/ \E reply \in GeminiReplies : GeminiAnswers(reply)
    \/ DiscoverFinish

Discovery == DiscoveryInit /\ [][DiscoveryNext]_vars

\* The handler takes each of its own steps; nothing makes the explanation
\* service answer.
HandlerStep ==
    \/ \E db_ok \in BOOLEAN : DiscoverLoad(db_ok)
    \/ \E db_ok \in BOOLEAN : DiscoverScan(db_ok)
    \/ \E db_ok \in BOOLEAN : DiscoverInteractions(db_ok)
    \/ \E db_ok \in BOOLEAN : DiscoverCandidate(db_ok)
    \/ DiscoverFinish

FairDiscovery == Discovery /\ WF_vars(HandlerStep)

\* ================================== discovery over a larger population
\* The same request, call by call, with every data-layer call answering and
\* no API key, over more profiles than there are requesters, for any integer
\* limit of the query string, and over profile tables in which one stored
\* embedding may have another dimension than the rest.
NumProfiles == 5
Profiles == 1..NumProfiles

\* int(request.args.get('limit', 2)) accepts any integer, negative or zero.
WideLimitInputs == (0 - MaxLimit)..MaxLimit

\* The rows requester 1 has with the profiles of `others`.
RowsWith(others) ==
    { [id |-> c, user_id_1 |-> 1, user_id_2 |-> c,
       match_status |-> IF c % 2 = 0 THEN "declined" ELSE "matched"] : c \in others }

RankingInit ==
    /\ premium = [u \in Users |-> TRUE]
    /\ \E odd \in {0, 1, NumProfiles - 1} :
          embedding = [u \in Profiles |-> IF u = odd
                                          THEN Some(VectorOf(u) \o <<1>>)
                                          ELSE Some(VectorOf(u))]
    /\ \E others \in SUBSET ((NumUsers + 1)..NumProfiles) :
          matches = { [id |-> 1, user_id_1 |-> 1, user_id_2 |-> 3,
                       match_status |-> "blocked"] } \cup RowsWith(others)
    /\ redis_ok = TRUE
    /\ cache = {}
    /\ ServingIdle
    /\ PipelineIdle
    /\ ScoringIdle
    /\ MessagingIdle
    /\ BillingIdle

RankingNext ==
    \/ \E u \in Users, l \in WideLimitInputs, f \in FilterInputs :
          DiscoverBegin(u, l, f, TRUE)
    \/ DiscoverLoad(TRUE)
    \/ DiscoverScan(TRUE)
    \/ DiscoverInteractions(TRUE)
    \/ DiscoverCandidate(TRUE)
    \/ DiscoverFinish

Ranking == RankingInit /\ [][RankingNext]_vars

\* ======================================== calculate_compatibility_score
\* Similarities k / SimilaritySteps for k in -SimilaritySteps..SimilaritySteps.
SimilaritySteps == 400

SimilarityInputs ==
    { <<SignSq(k), SimilaritySteps * SimilaritySteps>> :
        k \in (0 - SimilaritySteps)..SimilaritySteps }

ScoringInit ==
    /\ similarity \in SimilarityInputs
    /\ score = None
    /\ premium = [u \in Users |-> TRUE]
    /\ embedding = [u \in Users |-> Some(VectorOf(u))]
    /\ matches = {}
    /\ redis_ok = TRUE
    /\ cache = {}
    /\ req = [r \in Slots |-> IdleReq]
    /\ ops = 0
    /\ liked = {}
    /\ initiated = {}
    /\ decided = {}
    /\ gemini_key = FALSE
    /\ disc = IdleDisc
    /\ MessagingIdle
    /\ BillingIdle

CallScore ==
    /\ score = None
    /\ score' = Some(calculate_compatibility_score(similarity))
    /\ UNCHANGED <<matches, premium, embedding, redis_ok, cache, req, ops, liked,
                   initiated, decided, pipeline, similarity, messaging, billing>>

ScoringNext == CallScore

Scoring == ScoringInit /\ [][ScoringNext]_vars

\* ===================================================== MessageResource.post
\* Message sends, each in its own worker, next to the like/pass handler: the
\* checks of a send read the match row, its insert commits later.
\* match_id and receiver_id 0 stand for a field missing from the body.
MatchIdInputs == 0..NumUsers
ReceiverInputs == 0..NumUsers

\* Match.query.get(match_id)
GetMatch(rows, match_id) ==
    IF \E m \in rows : m.id = match_id
    THEN Some(CHOOSE m \in rows : m.id = match_id)
    ELSE None

\* The status code the checks of post answer with, 0 when they all pass.
SendRejection(user_id, match_id, receiver_id, match) ==
    IF match_id = 0 \/ receiver_id = 0 THEN 400
    ELSE IF match = None THEN 404
    ELSE IF match[1].user_id_1 # user_id /\ match[1].user_id_2 # user_id THEN 403
    ELSE IF match[1].match_status # "matched" THEN 400
    ELSE IF receiver_id # (IF match[1].user_id_1 = user_id
                          THEN match[1].user_id_2 ELSE match[1].user_id_1) THEN 400
    ELSE 0

MessagingInit ==
    /\ premium = [u \in Users |-> TRUE]
    /\ embedding = [u \in Users |-> Some(VectorOf(u))]
    /\ matches = { [id |-> 1, user_id_1 |-> 1, user_id_2 |-> 2, match_status |-> "matched"],
                   [id |-> 2, user_id_1 |-> 1, user_id_2 |-> 3, match_status |-> "pending"] }
    /\ redis_ok = TRUE
    /\ cache = {}
    /\ ServingIdle
    /\ PipelineIdle
    /\ ScoringIdle
    /\ MessagingIdle
    /\ BillingIdle

\* The body's fields, Match.query.get and the four checks.
SendRequest(r, user_id, match_id, receiver_id) ==
    /\ send[r].pc \in {"idle", "done"}
    /\ ops < MaxOps
    /\ ops' = ops + 1
    /\ LET match == GetMatch(matches, match_id)
           code == SendRejection(user_id, match_id, receiver_id, match)
           q == [IdleSend EXCEPT !.user_id = user_id, !.match_id = match_id,
                                 !.receiver_id = receiver_id, !.checked = match]
       IN  send' = [send EXCEPT ![r] =
                      IF code # 0
                      THEN [q EXCEPT !.pc = "done", !.code = code]
                      ELSE [q EXCEPT !.pc = "s_commit"]]
    /\ UNCHANGED <<matches, premium, embedding, redis_ok, cache, req, liked, initiated,
                   decided, pipeline, scoring, messages, billing>>

\* db.session.add(message), db.session.commit() and the success response.
SendCommit(r) ==
    /\ send[r].pc = "s_commit"
    /\ messages' = messages \cup
          { [id |-> Cardinality(messages) + 1, match_id |-> send[r].match_id,
             sender_id |-> send[r].user_id, receiver_id |-> send[r].receiver_id] }
    /\ send' = [send EXCEPT ![r] = [@ EXCEPT !.pc = "done", !.code = 200]]
    /\ UNCHANGED <<matches, premium, embedding, redis_ok, cache, req, ops, liked,
                   initiated, decided, pipeline, scoring, billing>>

MessagingNext ==
    \/ \E r \in Slots, u \in Users, m \in MatchIdInputs, t \in ReceiverInputs :
          SendRequest(r, u, m, t)
    \/ \E r \in Slots : SendCommit(r)
    \/ \E r \in Slots, u \in Users, t \in Users, a \in ActionInputs :
          ActionRequest(r, u, t, a)
    \/ \E r \in Slots : ActionCommit(r)
    \/ \E r \in Slots : ActionRespond(r)

Messaging == MessagingInit /\ [][MessagingNext]_vars

\* ================================================== payments and the gate
\* Payments, subscription events and the passing of time, next to discovery
\* requests behind premium_required.  Time is counted in days.  The cancel
\* and enable resources of payments.py are not registered as routes.
DurationDays == 30
TickDays == 31
MaxTicks == 2

SubscriptionStatus == {"active", "cancelled", "non-renewing", "expired"}

\* SubscriptionStatusResource.get: has_access
has_valid_subscription(user_id) ==
    /\ subscription[user_id] # None
    /\ subscription[user_id][1].status \in {"active", "non-renewing"}
    /\ subscription[user_id][1].current_period_end >= utcnow
premium_valid(user_id) ==
    /\ premium[user_id]
    /\ (premium_expires_at[user_id] = None \/ premium_expires_at[user_id][1] >= utcnow)
has_access(user_id) == premium_valid(user_id) \/ has_valid_subscription(user_id)

BillingInit ==
    /\ premium = [u \in Users |-> FALSE]
    /\ embedding = [u \in Users |-> Some(VectorOf(u))]
    /\ matches = {}
    /\ redis_ok = TRUE
    /\ cache = {}
    /\ ServingIdle
    /\ PipelineIdle
    /\ ScoringIdle
    /\ MessagingIdle
    /\ BillingIdle

\* VerifyPaymentResource.get for a successful monthly payment.  Card flow
\* (subscription created on Paystack): upsert of the user's subscription and
\* premium = True.  Otherwise: premium = True with an expiry, which is also
\* what the webhook's charge.success event does for a non-card channel.
VerifyPayment(user_id, card) ==
    /\ ops < MaxOps
    /\ ops' = ops + 1
    /\ premium' = [premium EXCEPT ![user_id] = TRUE]
    /\ IF card
       THEN /\ subscription' = [subscription EXCEPT ![user_id] =
                   Some([status |-> "active",
                         current_period_end |-> utcnow + DurationDays])]
            /\ UNCHANGED premium_expires_at
       ELSE /\ premium_expires_at' = [premium_expires_at EXCEPT ![user_id] =
                   Some(utcnow + DurationDays)]
            /\ UNCHANGED subscription
    /\ UNCHANGED <<matches, embedding, redis_ok, cache, req, liked, initiated, decided,
                   pipeline, scoring, messaging, utcnow>>

\* PaystackWebhookResource.post, subscription.* / invoice.create events: the
\* subscription takes the event's status and, with a next payment date, a
\* new period end.
WebhookSubscription(user_id, status, renewed) ==
    /\ ops < MaxOps
    /\ ops' = ops + 1
    /\ subscription[user_id] # None
    /\ subscription' = [subscription EXCEPT ![user_id] =
           Some([status |-> status,
                 current_period_end |-> IF renewed THEN utcnow + DurationDays
                                        ELSE subscription[user_id][1].current_period_end])]
    /\ UNCHANGED <<matches, premium, embedding, redis_ok, cache, req, liked, initiated,
                   decided, pipeline, scoring, messaging, premium_expires_at, utcnow>>

\* Time passes.
Tick ==
    /\ utcnow < MaxTicks * TickDays
    /\ utcnow' = utcnow + TickDays
    /\ UNCHANGED <<matches, premium, embedding, redis_ok, cache, req, ops, liked,
                   initiated, decided, pipeline, scoring, messaging, premium_expires_at,
                   subscription>>

BillingNext ==
    \/ \E u \in Users, card \in BOOLEAN : VerifyPayment(u, card)
    \/ \E u \in Users, st \in SubscriptionStatus, renewed \in BOOLEAN :
          WebhookSubscription(u, st, renewed)
    \/ Tick
    \/ \E u \in Users, l \in LimitInputs : DiscoverBegin(u, l, NoFilter, TRUE)
    \/ DiscoverLoad(TRUE)
    \/ DiscoverScan(TRUE)
    \/ DiscoverInteractions(TRUE)
    \/ DiscoverCandidate(TRUE)
    \/ DiscoverFinish

Billing == BillingInit /\ [][BillingNext]_vars

\* ========================================== calculate_cosine_similarity
\* The function called on every pair of embeddings of one dimension, with
\* integer components: profile 1 holds the first argument, profile 2 the
\* second.  A result <<n, 0>> would be a quotient with divisor zero.
MaxDim == 2
MaxCoord == 1

RECURSIVE VectorsOfLen(_)
VectorsOfLen(n) ==
    IF n = 0 THEN { <<>> }
    ELSE { Append(v, x) : v \in VectorsOfLen(n - 1), x \in (0 - MaxCoord)..MaxCoord }

CosineInit ==
    /\ \E n \in 1..MaxDim : \E a \in VectorsOfLen(n), b \in VectorsOfLen(n) :
          embedding = [u \in 1..2 |-> IF u = 1 THEN Some(a) ELSE Some(b)]
    /\ premium = [u \in Users |-> TRUE]
    /\ matches = {}
    /\ redis_ok = TRUE
    /\ cache = {}
    /\ ServingIdle
    /\ PipelineIdle
    /\ ScoringIdle
    /\ MessagingIdle
    /\ BillingIdle

\* similarity = calculate_cosine_similarity(...) followed by
\* compatibility = calculate_compatibility_score(similarity)
CallSimilarity ==
    /\ score = None
    /\ similarity' = calculate_cosine_similarity(embedding[1][1], embedding[2][1])
    /\ score' = Some(calculate_compatibility_score(similarity'))
    /\ UNCHANGED <<matches, premium, embedding, redis_ok, cache, req, ops, liked,
                   initiated, decided, pipeline, messaging, billing>>

CosineNext == CallSimilarity

Cosine == CosineInit /\ [][CosineNext]_vars

\* ================================================================== claims
IsAction(q) == q.kind = "action" /\ q.user_id # q.target_user_id
                                 /\ q.action \in ValidActions
PairRows(a, b) ==
    { m \in matches : {m.user_id_1, m.user_id_2} = {a, b} }
OnPair(q, a, b) == q.kind = "action" /\ {q.user_id, q.target_user_id} = {a, b}

\* C1 (as claimed): when both members of a pair like each other concurrently
\* (each request looked the pair up before the other committed), then once
\* both requests have finished the pair has exactly one row and it is
\* 'matched'.  A finished like that found no row although the counterpart's
\* like created it is the second of two such concurrent likes.
C1_ConcurrentLikesConverge ==
    \A r \in Slots :
        LET q == req[r] IN
        ( /\ q.pc = "done" /\ IsAction(q) /\ q.action = "like"
          /\ q.branch # "update"
          /\ <<q.target_user_id, q.user_id>> \in initiated
          /\ \A s \in Slots \ {r} :
                ~(Busy(s) /\ OnPair(req[s], q.user_id, q.target_user_id)) )
        => /\ Cardinality(PairRows(q.user_id, q.target_user_id)) = 1
           /\ \A m \in PairRows(q.user_id, q.target_user_id) :
                 m.match_status = "matched"

\* C2 (as claimed): a like/pass whose insert conflicts with the uniqueness
\* constraint on the pair (it found no row, and the pair has a row when it
\* commits) retries as an update and answers with success, never with an
\* error response.
C2_ConflictNotSurfaced ==
    \A r \in Slots :
        LET q == req[r] IN
        ( /\ q.pc = "done" /\ IsAction(q)
          /\ q.existing = None
          /\ PairRows(q.user_id, q.target_user_id) # {} )
        => q.resp.code = 200

\* C3 (as claimed): whichever of A and B has the smaller id, when A's like
\* created the pending row and B then likes A (finding the row pending), the
\* row becomes 'matched' and B's response has is_match = true.
C3_SecondLikeMatches ==
    \A r \in Slots :
        LET q == req[r] IN
        ( /\ q.pc = "done" /\ IsAction(q) /\ q.action = "like"
          /\ q.branch = "update"
          /\ q.existing[1].match_status = "pending"
          /\ <<q.target_user_id, q.user_id>> \in initiated
          /\ \A s \in Slots \ {r} : ~Busy(s) )
        => /\ q.resp.status = "matched"
           /\ q.resp.is_match
           /\ \A m \in PairRows(q.user_id, q.target_user_id) :
                 m.match_status = "matched"

\* C4 (as claimed): a row is 'matched' only if each of its two users has
\* issued a like on the other.
C4_MatchedNeedsBothLikes ==
    \A m \in matches :
        m.match_status = "matched"
        => /\ <<m.user_id_1, m.user_id_2>> \in liked
           /\ <<m.user_id_2, m.user_id_1>> \in liked


\* C5: the table has at most one row per unordered pair of users, every row
\* has user_id_1 < user_id_2 (so no row pairs a user with themselves), and an
\* action whose target is the acting user is answered with 400.
C5_CanonicalUniquePairs ==
    /\ \A m1 \in matches : \A m2 \in matches :
          {m1.user_id_1, m1.user_id_2} = {m2.user_id_1, m2.user_id_2} => m1 = m2
    /\ \A m \in matches : m.user_id_1 < m.user_id_2
    /\ \A r \in Slots :
          ( req[r].pc = "done" /\ req[r].kind = "action"
            /\ req[r].user_id = req[r].target_user_id )
          => req[r].resp.code = 400

\* C5 witness: an insert lost against the pair's concurrent insert (the
\* constraint refused the second row) and the table holds rows of actions.
C5_Witness ==
    /\ Cardinality(matches) >= 2
    /\ \E r \in Slots :
          /\ req[r].pc = "done" /\ IsAction(req[r])
          /\ req[r].existing = None
          /\ req[r].resp.code = 500
          /\ Cardinality(PairRows(req[r].user_id, req[r].target_user_id)) = 1

\* C5, self-target case: an action whose target is the acting user has been
\* rejected.
C5_SelfTargetRejected ==
    \E r \in Slots :
        /\ req[r].pc = "done" /\ req[r].kind = "action"
        /\ req[r].user_id = req[r].target_user_id
        /\ req[r].resp.code = 400

\* C6 (as claimed): once user U's like/pass on T has returned, every
\* discovery request of U that starts afterwards answers without T, from the
\* cache or freshly computed.
C6_DecidedNeverReturned ==
    \A r \in Slots :
        ( req[r].pc = "done" /\ req[r].kind = "discover" /\ req[r].resp.code = 200 )
        => SeqToSet(req[r].resp.matches) \cap req[r].decided = {}

\* C7 (as claimed): when a like/pass of U on T returns success, in every
\* branch, no discovery cache entry exists for U or for T.
C7_BothCachesInvalidated ==
    \A r \in Slots :
        ( req[r].pc = "done" /\ IsAction(req[r]) /\ req[r].resp.code = 200 )
        => ~\E e \in cache :
               e.key.user_id \in {req[r].user_id, req[r].target_user_id}


\* The step in which slot r takes a discovery request.
TakesDiscover(r) ==
    /\ ~Busy(r)
    /\ ops' = ops + 1
    /\ req'[r].kind = "discover"

\* C8: a freshly computed (cache-miss) discovery result for requester U
\* contains no candidate that has a row with U, in either position and
\* whatever the row's status, in the table the request read.
C8_FreshResultExcludesInteractions ==
    [][ \A r \in Slots :
          ( TakesDiscover(r) /\ req'[r].pc = "d_store" )
          => \A c \in SeqToSet(req'[r].result) :
                PairRows(req'[r].user_id, c) = {} ]_vars

\* C8 witness: a fresh result is computed while a scanned candidate has a row
\* with the requester in the second position, and that candidate is left out.
C8_Witness ==
    \E r \in Slots : \E m \in matches :
        /\ req[r].pc = "d_store"
        /\ req[r].result # <<>>
        /\ m.user_id_2 = req[r].user_id
        /\ m.user_id_1 \in Candidates(req[r].user_id, embedding, req[r].filter)
        /\ m.user_id_1 \notin SeqToSet(req[r].result)

C10_NoSurvivorIsEmptySuccess ==
    [][ \A r \in Slots :
          LET u == req'[r].user_id
              ranked == get_potential_matches(u, req'[r].limit * 2, embedding,
                                              req'[r].filter)
          IN  ( /\ TakesDiscover(r)
                /\ premium[u]
                /\ embedding[u] # None
                /\ ~\E e \in cache :
                       e.key = build_discover_cache_key(u, req'[r].limit, req'[r].filter)
                /\ \A c \in SeqToSet(ranked) : PairRows(u, c) # {} )
              => /\ req'[r].pc = "done"
                 /\ req'[r].resp.code = 200
                 /\ req'[r].resp.matches = <<>> ]_vars

\* C10 witness: ranked candidates existed, all had rows with the requester,
\* and the request was answered with an empty success.
C10_Witness ==
    \E r \in Slots :
        /\ req[r].pc = "done" /\ req[r].kind = "discover"
        /\ ~req[r].resp.cached
        /\ req[r].resp.code = 200
        /\ req[r].resp.matches = <<>>
        /\ get_potential_matches(req[r].user_id, req[r].limit * 2, embedding,
                                 req[r].filter) # <<>>

\* C11 (as claimed): a discovery request during which a data-layer call
\* raised (loading the requester, scanning the candidate profiles, listing
\* the interactions) ends with the 500 error response, never with a success.
C11_DataFailureAborts ==
    ( disc.pc = "done" /\ disc.db_failed ) => disc.resp.code = 500

\* C12 (as claimed): whatever the explanation generator does for a candidate
\* (no API key, an exception, a malformed or an empty reply), a computed
\* discovery result includes every selected candidate, each with a
\* non-empty explanation.
C12_ExplanationNeverEmpty ==
    ( disc.pc = "done" /\ disc.resp.code = 200 /\ ~disc.resp.cached )
    => /\ [i \in 1..Len(disc.resp.matches) |-> disc.resp.matches[i].user_id]
              = disc.filtered
       /\ \A i \in 1..Len(disc.resp.matches) :
             disc.resp.matches[i].ai_explanation.len > 0

\* C13 (as claimed): a discovery request that has started always eventually
\* returns a response, even if the explanation service never answers a call.
C13_DiscoveryReturns ==
    (disc.pc \notin {"idle", "done"}) ~> (disc.pc = "done")

\* The similarity under test is GridIndex / SimilaritySteps.
GridIndex ==
    CHOOSE k \in (0 - SimilaritySteps)..SimilaritySteps :
        similarity = <<SignSq(k), SimilaritySteps * SimilaritySteps>>

\* round(num / den) for den > 0, halves to the even neighbour (Python's round).
RoundHalfEven(num, den) ==
    LET a == IF num < 0 THEN 0 - num ELSE num
        q == a \div den
        r == a % den
        m == IF 2 * r < den THEN q
             ELSE IF 2 * r > den THEN q + 1
             ELSE IF q % 2 = 0 THEN q ELSE q + 1
    IN  IF num < 0 THEN 0 - m ELSE m

\* C14 (as claimed): for every similarity s in [-1, 1] the returned score is
\* round(s * 100) clamped to [0, 100], and the score of a smaller similarity
\* is never larger.
C14_ScoreIsClampedRound ==
    score # None
    => /\ score[1] = Max(0, Min(100, RoundHalfEven(100 * GridIndex, SimilaritySteps)))
       /\ GridIndex > 0 - SimilaritySteps
          => calculate_compatibility_score(
                 <<SignSq(GridIndex - 1), SimilaritySteps * SimilaritySteps>>) <= score[1]

\* The similarity of a listed candidate to the requester of the request.
SimilarityTo(c) ==
    calculate_cosine_similarity(embedding[disc.user_id][1], embedding[c][1])

\* C15: the matches list of a successful discovery response is ordered by
\* similarity to the requester, descending (no entry has a lower similarity
\* than a later one), and every entry carries the explanation requested for
\* its own candidate and the compatibility score of its own similarity.
C15_RankedOrderKept ==
    ( disc.pc = "done" /\ disc.resp.code = 200 )
    => LET ms == disc.resp.matches IN
       /\ \A i \in 1..Len(ms) : \A j \in (i + 1)..Len(ms) :
             ~SimLess(SimilarityTo(ms[i].user_id), SimilarityTo(ms[j].user_id))
       /\ \A i \in 1..Len(ms) :
             /\ ms[i].explained = ms[i].user_id
             /\ ms[i].compatibility_score =
                    calculate_compatibility_score(SimilarityTo(ms[i].user_id))

\* C15 witness: a computed response lists two candidates of strictly
\* different similarity, the better one first although it was scanned later.
C15_Witness ==
    /\ disc.pc = "done" /\ disc.resp.code = 200 /\ ~disc.resp.cached
    /\ Len(disc.resp.matches) >= 2
    /\ disc.resp.matches[1].user_id > disc.resp.matches[2].user_id
    /\ SimLess(SimilarityTo(disc.resp.matches[2].user_id),
               SimilarityTo(disc.resp.matches[1].user_id))
    /\ disc.resp.matches[1].ai_explanation # disc.resp.matches[2].ai_explanation

\* C16 (as claimed): a request that is served a cached result has the same
\* requester id, limit and filters (min_age, max_age, gender) as the request
\* that stored the entry.
C16_CacheServedToSameRequest ==
    ( disc.pc = "done" /\ disc.hit # None )
    => disc.hit[1] = [user_id |-> disc.user_id, limit |-> disc.limit,
                      filter |-> disc.filter]

\* What a discovery request answers from the data layer alone: the code and
\* the list of candidates.
FreshOutcome(user_id, limit, f) ==
    IF ~premium[user_id] THEN <<403, <<>>>>
    ELSE IF embedding[user_id] = None THEN <<400, <<>>>>
    ELSE <<200, DiscoverResult(user_id, limit, f, embedding, matches)>>

\* C17: with the cache unavailable (redis_ok false: every get misses, every
\* set and invalidation does nothing) a request has the outcome it has with
\* an empty working cache.  In both situations a discovery request answers
\* what the data layer alone determines, never a cached or an error answer
\* of the cache, and a like/pass that has committed answers success with the
\* status of its branch; the unavailable cache stays empty.
C17_CacheDownChangesNothing ==
    [][ \A r \in Slots :
          ( ~redis_ok \/ cache = {} )
          => /\ TakesDiscover(r)
                => /\ ~req'[r].resp.cached
                   /\ FreshOutcome(req'[r].user_id, req'[r].limit, req'[r].filter)
                        = IF req'[r].pc = "d_store"
                          THEN <<200, req'[r].result>>
                          ELSE <<req'[r].resp.code, req'[r].resp.matches>>
             /\ ( req[r].pc = "d_store" /\ req'[r].pc = "done" )
                => /\ req'[r].resp = success_response("", FALSE, req[r].result, FALSE)
                   /\ (~redis_ok => cache' = {})
             /\ ( req[r].pc = "a_respond" /\ req'[r].pc = "done" )
                => /\ req'[r].resp.code = 200
                   /\ req'[r].resp.status =
                         IF req[r].branch = "new_like" THEN "pending"
                         ELSE IF req[r].branch = "new_pass" THEN "declined"
                         ELSE (CHOOSE m \in matches :
                                  m.id = req[r].existing[1].id).match_status
                   /\ (~redis_ok => cache' = {}) ]_vars

\* C17 witness: with the cache unavailable a discovery request has returned
\* a computed, non-empty list and a like/pass has been answered before it.
C17_Witness ==
    /\ ~redis_ok
    /\ decided # {}
    /\ \E r \in Slots :
          /\ req[r].pc = "done" /\ req[r].kind = "discover"
          /\ req[r].resp.code = 200
          /\ req[r].resp.matches # <<>>

\* C18 (as claimed): a row in status 'blocked' keeps that status whatever
\* like or pass either of its two users issues.
C18_BlockedIsTerminal ==
    [][ \A m \in matches :
          m.match_status = "blocked"
          => \E n \in matches' : n.id = m.id /\ n.match_status = "blocked" ]_vars

\* C19 (as claimed): a pass by either user of a pair whose row was found
\* 'pending' or 'matched' leaves the row 'declined' and is answered with
\* status 'declined' and is_match = false.
C19_PassDeclines ==
    \A r \in Slots :
        LET q == req[r] IN
        ( /\ q.pc = "done" /\ IsAction(q) /\ q.action = "pass"
          /\ q.branch = "update"
          /\ q.existing[1].match_status \in {"pending", "matched"} )
        => /\ q.resp.code = 200
           /\ q.resp.status = "declined"
           /\ ~q.resp.is_match
           /\ \A m \in PairRows(q.user_id, q.target_user_id) :
                 m.match_status = "declined"

\* C20 (as claimed): a like/pass that found no row for its pair creates
\* exactly one row, 'pending' for a like and 'declined' for a pass.
C20_NewRecordStatus ==
    [][ \A r \in Slots :
          ( /\ req[r].pc = "a_commit" /\ req[r].existing = None
            /\ req'[r].pc # "a_commit" )
          => \E row \in matches' \ matches :
                /\ matches' = matches \cup {row}
                /\ {row.user_id_1, row.user_id_2}
                      = {req[r].user_id, req[r].target_user_id}
                /\ row.match_status =
                      IF req[r].action = "like" THEN "pending" ELSE "declined" ]_vars

\* C21 (as claimed): a like/pass request of a user whose profile is not
\* premium is answered 403 at once: it is never past the gate, looks no row
\* up and writes nothing.
C21_ActionBehindPremiumGate ==
    \A r \in Slots :
        ( req[r].kind = "action" /\ ~premium[req[r].user_id] )
        => /\ req[r].pc = "done"
           /\ req[r].resp.code = 403

\* C26 (as claimed): once U's like/pass on T has invalidated U's cache, no
\* cache entry of U holds a result that contains T; a discovery request of U
\* that read the table before the action committed does not put one back.
C26_NoStaleEntryAfterInvalidation ==
    \A d \in decided : \A e \in cache :
        e.key.user_id = d[1] => d[2] \notin SeqToSet(e.value)

\* C27 (as claimed): a row in status 'declined' keeps that status whatever
\* like or pass either of its two users issues.
C27_DeclinedIsAbsorbing ==
    [][ \A m \in matches :
          m.match_status = "declined"
          => \E n \in matches' : n.id = m.id /\ n.match_status = "declined" ]_vars

\* C25: every explanation generate_match_explanation has returned, generated
\* text, fallback or the unavailable notice, is at most 200 characters long.
C25_ExplanationAtMost200 ==
    \A i \in 1..Len(disc.matches_data) :
        disc.matches_data[i].ai_explanation.len <= 200

\* C25 witness: a reply longer than 200 characters has been cut to exactly
\* 200, and a fallback text has been returned in the same result.
C25_Witness ==
    /\ \E i \in 1..Len(disc.matches_data) :
          /\ disc.matches_data[i].ai_explanation.text = "generated"
          /\ disc.matches_data[i].ai_explanation.len = 200
    /\ \E i \in 1..Len(disc.matches_data) :
          disc.matches_data[i].ai_explanation.text # "generated"

\* The candidates of the request's scan that rank among the first n: fewer
\* than n other ranked candidates come before them.
RankedFor(q) ==
    { c \in Candidates(q.user_id, embedding, q.filter) :
        Len(embedding[c][1]) = Len(embedding[q.user_id][1]) }
TopRanked(q, n) ==
    { c \in RankedFor(q) :
        Cardinality({ d \in RankedFor(q) \ {c} :
                        Before(embedding[q.user_id][1], embedding, d, c) }) < n }
Undecided(q, cs) == { c \in cs : PairRows(q.user_id, c) = {} }

\* C22: for a limit >= 1, a freshly computed discovery result has exactly
\* min(limit, k) entries, hence at most limit, where k counts the candidates
\* among the first 2 * limit of the ranking that have no row with the
\* requester.
C22_FreshResultSize ==
    ( disc.pc = "done" /\ disc.resp.code = 200 /\ ~disc.resp.cached /\ disc.limit >= 1 )
    => /\ Len(disc.resp.matches) <= disc.limit
       /\ Len(disc.resp.matches)
             = Min(disc.limit,
                   Cardinality(Undecided(disc, TopRanked(disc, 2 * disc.limit))))

\* C22 witness: a fresh result is shorter than limit although at least limit
\* undecided candidates rank below the first 2 * limit.
C22_Witness ==
    /\ disc.pc = "done" /\ disc.resp.code = 200 /\ ~disc.resp.cached
    /\ disc.limit >= 1
    /\ Len(disc.resp.matches) < disc.limit
    /\ Cardinality(Undecided(disc, RankedFor(disc) \ TopRanked(disc, 2 * disc.limit)))
          >= disc.limit

C30_NonPositiveLimitIsEmpty ==
    ( disc.pc = "done" )
    => /\ (disc.limit <= 0 => disc.resp.code = 200 /\ disc.resp.matches = <<>>)
       /\ Len(disc.resp.matches) <= Max(disc.limit, 0)

IsZeroVector(v) == \A i \in 1..Len(v) : v[i] = 0

\* C24: calculate_cosine_similarity of any vector and the zero vector of the
\* same dimension, in either order and also for two zero vectors, returns
\* 0.0; no call divides by zero.
C24_ZeroVectorGivesZero ==
    ( score # None )
    => /\ similarity[2] # 0
       /\ ( IsZeroVector(embedding[1][1]) \/ IsZeroVector(embedding[2][1]) )
             => similarity = <<0, 1>>

\* C24 witness: the function has returned for a non-zero first argument and
\* the zero vector as second argument.
C24_Witness ==
    /\ score # None
    /\ ~IsZeroVector(embedding[1][1])
    /\ IsZeroVector(embedding[2][1])
    /\ similarity = <<0, 1>>

\* C28 (as claimed): a message row is inserted only while its match exists
\* with status 'matched', its sender is one of the match's two users and its
\* receiver the other; a send that is rejected leaves the table unchanged.
C28_MessageOnlyOnMatched ==
    [][ /\ \A msg \in messages' \ messages :
            \E m \in matches :
               /\ m.id = msg.match_id
               /\ m.match_status = "matched"
               /\ {msg.sender_id, msg.receiver_id} = {m.user_id_1, m.user_id_2}
        /\ \A r \in Slots :
            ( send[r].pc # "done" /\ send'[r].pc = "done" /\ send'[r].code # 200 )
            => messages' = messages ]_vars

\* C29 (as claimed): a discovery request that premium_required has let
\* through belongs to a user for whom the subscription status reports
\* has_access = true; a user with premium = true, an expiry in the past and
\* no valid subscription is not admitted.
C29_GateAgreesWithStatus ==
    ( disc.pc \notin {"idle", "done"} ) => has_access(disc.user_id)

====
